---- MODULE Spec2Model ----
(***************************************************************************)
(* Session orchestration and split-view layout of the terminal manager:    *)
(* the zustand session store (src/src/stores/sessionStore.ts), the         *)
(* keyboard dispatch of App and the pane sizes of SplitTerminalView.       *)
(*                                                                         *)
(* JavaScript runs one callback at a time.  An async store operation is a  *)
(* record in the bag `calls`: it is added when the operation is called     *)
(* (the code up to its first await runs in that step), it advances when    *)
(* the host answers the request it awaits (the code up to the next await   *)
(* runs in that step), and it stays with pc "resolved" or "rejected" until *)
(* its caller has taken the outcome.                                       *)
(***************************************************************************)
EXTENDS Integers, Sequences, FiniteSets, Bags, TLC

VARIABLES
    sessions,         \* Map<string, Session> in insertion order
    groups,           \* Map<string, SessionGroup> in insertion order
    activeSessionId,  \* string | null
    isLoading,        \* boolean
    splitView,        \* {enabled, sessionIds, direction}
    calls,            \* async store operations in progress or just settled
    nextSessionId,    \* the next session id the host hands out
    nextGroupId,      \* the next group id the host hands out
    paneSizes,        \* SplitTerminalView: useState<number[]>
    resizingIndex,    \* SplitTerminalView: useState<number | null>
    effectLen,        \* SplitTerminalView: sessionIds.length the reset effect last ran for
    moves,            \* mouse moves handled since the pane sizes were last reset
    drifted,          \* a move since the last reset clamped the neighbour or met a missing pane
    terminals,        \* useTerminal: terminalRef.current of each rendered pane, by session id
    listeners,        \* useTerminal: the callbacks handed to onPtyOutput and onPtyExit
    emitted,          \* the numbers of output and exit events the host has emitted
    sidebar           \* Sidebar: the groups and the sessions its last render lists

storeVars == <<sessions, groups, activeSessionId, isLoading, splitView>>
hostVars == <<calls, nextSessionId, nextGroupId>>
viewVars == <<paneSizes, resizingIndex, effectLen, moves, drifted>>
bridgeVars == <<terminals, listeners, emitted>>
vars == <<sessions, groups, activeSessionId, isLoading, splitView, calls,
          nextSessionId, nextGroupId, paneSizes, resizingIndex, effectLen, moves, drifted,
          terminals, listeners, emitted, sidebar>>

----
\* Bounds of the model.
MaxSessions == 3      \* session ids the host hands out in one run
MaxGroups == 1        \* group ids the host hands out in one run
MaxCalls == 2         \* async operations in progress at the same time
MaxSaved == 2         \* saved sessions in a snapshot
MaxSavedGroups == 1   \* saved groups in a snapshot
MaxSplit == 2         \* ids passed to enableSplitView
PointerSteps == 4     \* the pointer is at k / PointerSteps of the container, k = 0 .. PointerSteps
MaxMoves == 2         \* mouse moves handled between two resets of the pane sizes
MaxEvents == 2        \* events the host emits in one run
MaxPanes == 2         \* sessions created where their panes are rendered
MaxStale == 1         \* sessions created where calls outlive what they refer to
MaxListed == 3        \* groups in the map the sidebar lists
MaxOrder == 1         \* the orders of those groups are 0 .. MaxOrder

NULL == 0             \* null / undefined

Directions == {"horizontal", "vertical"}

----
\* Map and array helpers (JavaScript Map keeps insertion order).

Keys(m) == [i \in DOMAIN m |-> m[i].id]

KeySet(m) == {m[i].id : i \in DOMAIN m}

Has(m, id) == id \in KeySet(m)

\* A Map.set that puts a new key first.
MapSetFirst(m, rec) ==
    IF Has(m, rec.id)
    THEN [i \in DOMAIN m |-> IF m[i].id = rec.id THEN rec ELSE m[i]]
    ELSE <<rec>> \o m

\* Map.set: replaces the value in place for a known key, appends a new key.
MapSet(m, rec) ==
    IF Has(m, rec.id)
    THEN [i \in DOMAIN m |-> IF m[i].id = rec.id THEN rec ELSE m[i]]
    ELSE Append(m, rec)

MapDelete(m, id) == SelectSeq(m, LAMBDA r : r.id # id)

MapGet(m, id) == m[CHOOSE i \in DOMAIN m : m[i].id = id]

\* Array.prototype.filter((x) => x !== id)
Without(s, id) == SelectSeq(s, LAMBDA x : x # id)

Range(s) == {s[i] : i \in DOMAIN s}

\* Array.prototype.indexOf, 0-based, -1 when absent.
IndexOf(s, x) ==
    IF x \in Range(s)
    THEN (CHOOSE i \in DOMAIN s : s[i] = x /\ \A j \in 1..(i - 1) : s[j] # x) - 1
    ELSE -1

\* s[i] for a 0-based index, undefined (NULL) outside the array.
At(s, i) == IF i >= 0 /\ i < Len(s) THEN s[i + 1] ELSE NULL

SeqsUpTo(S, n) == UNION {[1..k -> S] : k \in 0..n}

DisabledSplit == [enabled |-> FALSE, sessionIds |-> <<>>, direction |-> "vertical"]

\* getSessionsInGroup
getSessionsInGroup(groupId) == SelectSeq(sessions, LAMBDA s : s.groupId = groupId)

InProgress == BagCardinality(calls)

AddCall(c) == calls (+) SetToBag({c})

ReplaceCall(c, d) == (calls (-) SetToBag({c})) (+) SetToBag({d})

\* Operation c has settled with outcome d, which stays for the caller to take
\* (keep), or is taken at once.
Finish(c, keep, d) == IF keep THEN ReplaceCall(c, d) ELSE calls (-) SetToBag({c})

\* Session ids the host may still hand out: every create request in flight
\* has one reserved, so the host never runs past MaxSessions.
Reserved(c) ==
    IF c.op = "createSession" /\ c.pc = "await" THEN 1
    ELSE IF c.op = "loadLayout" /\ c.pc = "create"
         THEN Cardinality({i \in DOMAIN c.created : c.created[i] = -1})
         ELSE 0

RECURSIVE SumReserved(_)
SumReserved(S) ==
    IF S = {} THEN 0
    ELSE LET c == CHOOSE x \in S : TRUE
         IN  Reserved(c) * CopiesIn(c, calls) + SumReserved(S \ {c})

FreeSessionIds == MaxSessions - (nextSessionId - 1) - SumReserved(BagToSet(calls))

Awaiting(op, pc) == {c \in BagToSet(calls) : c.op = op /\ c.pc = pc}

Settled(op, pc) == [op |-> op, pc |-> pc]

----
\* The host (the Rust backend behind src/lib/tauri.ts).

\* The name every session and group is created with, and the one they are
\* renamed to.
NewName == "new"

Renamed == "renamed"

\* create_session answers with a descriptor: a fresh id and the group asked for.
HostSessionInfo(groupId) == [id |-> nextSessionId, group_id |-> groupId]

\* create_group answers with the new group.
HostGroup == [id |-> nextGroupId, name |-> NewName, collapsed |-> FALSE,
              order |-> nextGroupId - 1]

----
\* Session actions.

\* The Session built from the host's descriptor.
NewSession(info) ==
    [id |-> info.id, name |-> NewName, groupId |-> info.group_id, status |-> "running",
     terminal |-> NULL]

createSession(lim, groupId) ==
    /\ InProgress < lim
    /\ FreeSessionIds > 0
    /\ groupId \in {NULL} \cup KeySet(groups)
    /\ calls' = AddCall([op |-> "createSession", pc |-> "await", groupId |-> groupId])
    /\ UNCHANGED <<storeVars, nextSessionId, nextGroupId>>

createSessionResolve(keep) ==
    \E c \in Awaiting("createSession", "await") :
        LET session == NewSession(HostSessionInfo(c.groupId))
        IN  /\ sessions' = MapSet(sessions, session)
            /\ activeSessionId' = session.id
            /\ nextSessionId' = nextSessionId + 1
            /\ calls' = Finish(c, keep, Settled("createSession", "resolved"))
            /\ UNCHANGED <<groups, isLoading, splitView, nextGroupId>>

\* A createSession that inserts a session of its own when the host call fails.
createSessionRejectInserting(keep) ==
    \E c \in Awaiting("createSession", "await") :
        /\ sessions' = MapSet(sessions, NewSession([id |-> nextSessionId, group_id |-> c.groupId]))
        /\ calls' = Finish(c, keep, Settled("createSession", "rejected"))
        /\ UNCHANGED <<groups, activeSessionId, isLoading, splitView, nextSessionId, nextGroupId>>

createSessionReject(keep) ==
    \E c \in Awaiting("createSession", "await") :
        /\ calls' = Finish(c, keep, Settled("createSession", "rejected"))
        /\ UNCHANGED <<storeVars, nextSessionId, nextGroupId>>

\* A deleteSession that leaves the active selection as it is.
DeleteSessionActiveKept(id) == activeSessionId

\* deleteSession: the new active selection.
DeleteSessionActive(id) ==
    LET remaining == Keys(MapDelete(sessions, id))
    IN  IF activeSessionId = id
        THEN (IF Len(remaining) > 0 THEN remaining[1] ELSE NULL)
        ELSE activeSessionId

\* deleteSession: the split view without the deleted session.
DeleteSessionSplitView(id) ==
    LET newSplitSessionIds == Without(splitView.sessionIds, id)
    IN  IF Len(newSplitSessionIds) < 2
        THEN DisabledSplit
        ELSE [splitView EXCEPT !.sessionIds = newSplitSessionIds]

deleteSession(lim, id) ==
    /\ InProgress < lim
    /\ id \in KeySet(sessions) \cup ({activeSessionId} \ {NULL})
    /\ calls' = AddCall([op |-> "deleteSession", pc |-> "await", id |-> id])
    /\ UNCHANGED <<storeVars, nextSessionId, nextGroupId>>

deleteSessionResolve(keep) ==
    \E c \in Awaiting("deleteSession", "await") :
        /\ sessions' = MapDelete(sessions, c.id)
        /\ activeSessionId' = DeleteSessionActive(c.id)
        /\ splitView' = DeleteSessionSplitView(c.id)
        /\ calls' = Finish(c, keep, Settled("deleteSession", "resolved"))
        /\ UNCHANGED <<groups, isLoading, nextSessionId, nextGroupId>>

deleteSessionReject(keep) ==
    \E c \in Awaiting("deleteSession", "await") :
        /\ calls' = Finish(c, keep, Settled("deleteSession", "rejected"))
        /\ UNCHANGED <<storeVars, nextSessionId, nextGroupId>>

setActiveSession(id) ==
    /\ id \in KeySet(sessions)
    /\ activeSessionId' = id
    /\ UNCHANGED <<sessions, groups, isLoading, splitView, hostVars>>

\* A setter without the check that the session is still there.
UpdateSessionUnchecked(id, field, value) ==
    MapSet(sessions,
           [(IF Has(sessions, id) THEN MapGet(sessions, id)
             ELSE NewSession([id |-> id, group_id |-> NULL])) EXCEPT ![field] = value])

\* The session with one field replaced, when the session is still there.
UpdateSession(id, field, value) ==
    IF Has(sessions, id)
    THEN MapSet(sessions, [MapGet(sessions, id) EXCEPT ![field] = value])
    ELSE sessions

\* The outcome of a call that referred to id; found tells whether id was
\* still in the map m when the call completed.
SettledFor(c, pc, m) == [op |-> c.op, pc |-> pc, id |-> c.id, found |-> Has(m, c.id)]

renameSession(lim, id, name) ==
    /\ InProgress < lim
    /\ id \in KeySet(sessions)
    /\ calls' = AddCall([op |-> "renameSession", pc |-> "await", id |-> id, name |-> name])
    /\ UNCHANGED <<storeVars, nextSessionId, nextGroupId>>

renameSessionResolve(keep) ==
    \E c \in Awaiting("renameSession", "await") :
        /\ sessions' = UpdateSession(c.id, "name", c.name)
        /\ calls' = Finish(c, keep, SettledFor(c, "resolved", sessions))
        /\ UNCHANGED <<groups, activeSessionId, isLoading, splitView,
                       nextSessionId, nextGroupId>>

renameSessionReject(keep) ==
    \E c \in Awaiting("renameSession", "await") :
        /\ calls' = Finish(c, keep, SettledFor(c, "rejected", sessions))
        /\ UNCHANGED <<storeVars, nextSessionId, nextGroupId>>

\* setSessionTerminal: the session holds the terminal of its pane.
setSessionTerminal(id, terminal) ==
    /\ sessions' = UpdateSession(id, "terminal", terminal)
    /\ UNCHANGED <<groups, activeSessionId, isLoading, splitView, hostVars>>

setSessionGroup(lim, id, groupId) ==
    /\ InProgress < lim
    /\ id \in KeySet(sessions)
    /\ groupId \in {NULL} \cup KeySet(groups)
    /\ calls' = AddCall([op |-> "setSessionGroup", pc |-> "await", id |-> id,
                         groupId |-> groupId])
    /\ UNCHANGED <<storeVars, nextSessionId, nextGroupId>>

setSessionGroupResolve(keep) ==
    \E c \in Awaiting("setSessionGroup", "await") :
        /\ sessions' = UpdateSession(c.id, "groupId", c.groupId)
        /\ calls' = Finish(c, keep, Settled("setSessionGroup", "resolved"))
        /\ UNCHANGED <<groups, activeSessionId, isLoading, splitView,
                       nextSessionId, nextGroupId>>

setSessionGroupReject(keep) ==
    \E c \in Awaiting("setSessionGroup", "await") :
        /\ calls' = Finish(c, keep, Settled("setSessionGroup", "rejected"))
        /\ UNCHANGED <<storeVars, nextSessionId, nextGroupId>>

----
\* Group actions.

createGroup(lim) ==
    /\ InProgress < lim
    /\ nextGroupId - 1 + CopiesIn([op |-> "createGroup", pc |-> "await"], calls) < MaxGroups
    /\ calls' = AddCall([op |-> "createGroup", pc |-> "await"])
    /\ UNCHANGED <<storeVars, nextSessionId, nextGroupId>>

createGroupResolve(keep) ==
    \E c \in Awaiting("createGroup", "await") :
        /\ groups' = MapSet(groups, HostGroup)
        /\ nextGroupId' = nextGroupId + 1
        /\ calls' = Finish(c, keep, Settled("createGroup", "resolved"))
        /\ UNCHANGED <<sessions, activeSessionId, isLoading, splitView, nextSessionId>>

createGroupReject(keep) ==
    \E c \in Awaiting("createGroup", "await") :
        /\ calls' = Finish(c, keep, Settled("createGroup", "rejected"))
        /\ UNCHANGED <<storeVars, nextSessionId, nextGroupId>>

\* The group with one field replaced, when the group is still there.
UpdateGroup(id, field, value) ==
    IF Has(groups, id)
    THEN MapSet(groups, [MapGet(groups, id) EXCEPT ![field] = value])
    ELSE groups

renameGroup(lim, id, name) ==
    /\ InProgress < lim
    /\ id \in KeySet(groups)
    /\ calls' = AddCall([op |-> "renameGroup", pc |-> "await", id |-> id, name |-> name])
    /\ UNCHANGED <<storeVars, nextSessionId, nextGroupId>>

renameGroupResolve(keep) ==
    \E c \in Awaiting("renameGroup", "await") :
        /\ groups' = UpdateGroup(c.id, "name", c.name)
        /\ calls' = Finish(c, keep, SettledFor(c, "resolved", groups))
        /\ UNCHANGED <<sessions, activeSessionId, isLoading, splitView,
                       nextSessionId, nextGroupId>>

renameGroupReject(keep) ==
    \E c \in Awaiting("renameGroup", "await") :
        /\ calls' = Finish(c, keep, SettledFor(c, "rejected", groups))
        /\ UNCHANGED <<storeVars, nextSessionId, nextGroupId>>

toggleGroupCollapsed(lim, id) ==
    /\ InProgress < lim
    /\ id \in KeySet(groups)
    /\ calls' = AddCall([op |-> "toggleGroupCollapsed", pc |-> "await", id |-> id])
    /\ UNCHANGED <<storeVars, nextSessionId, nextGroupId>>

\* The host answers with the group's new collapsed flag.
toggleGroupCollapsedResolve(keep) ==
    \E c \in Awaiting("toggleGroupCollapsed", "await") : \E collapsed \in BOOLEAN :
        /\ groups' = UpdateGroup(c.id, "collapsed", collapsed)
        /\ calls' = Finish(c, keep, SettledFor(c, "resolved", groups))
        /\ UNCHANGED <<sessions, activeSessionId, isLoading, splitView,
                       nextSessionId, nextGroupId>>

toggleGroupCollapsedReject(keep) ==
    \E c \in Awaiting("toggleGroupCollapsed", "await") :
        /\ calls' = Finish(c, keep, SettledFor(c, "rejected", groups))
        /\ UNCHANGED <<storeVars, nextSessionId, nextGroupId>>

\* The sessions of the registry, in its order, with their groups.
Memberships(ss) == [i \in DOMAIN ss |-> [id |-> ss[i].id, groupId |-> ss[i].groupId]]

\* A deleteGroup that removes the group without moving its sessions.
DeleteGroupAtOnce(c, todo, keep) ==
    /\ groups' = MapDelete(groups, c.id)
    /\ calls' = Finish(c, keep, [op |-> "deleteGroup", pc |-> "resolved",
                                id |-> c.id, before |-> c.before])

\* deleteGroup, from sessionsToUpdate on: with no session left to move the
\* group is removed, otherwise the next setSessionGroup(session.id, null) is
\* awaited.  `before` keeps the sessions and their groups as they were when
\* deleteGroup was called.
DeleteGroupContinue(c, todo, keep) ==
    IF todo = <<>>
    THEN /\ groups' = MapDelete(groups, c.id)
         /\ calls' = Finish(c, keep, [op |-> "deleteGroup", pc |-> "resolved",
                                     id |-> c.id, before |-> c.before])
    ELSE /\ groups' = groups
         /\ calls' = ReplaceCall(c, [c EXCEPT !.pc = "set_session_group", !.todo = todo])

deleteGroup(lim, id) ==
    /\ InProgress < lim
    /\ id \in KeySet(groups)
    /\ calls' = AddCall([op |-> "deleteGroup", pc |-> "delete_group", id |-> id,
                         todo |-> <<>>, before |-> Memberships(sessions)])
    /\ UNCHANGED <<storeVars, nextSessionId, nextGroupId>>

\* tauri.deleteGroup(id) has resolved.
deleteGroupHostResolve(keep) ==
    \E c \in Awaiting("deleteGroup", "delete_group") :
        /\ DeleteGroupContinue(c, Keys(getSessionsInGroup(c.id)), keep)
        /\ UNCHANGED <<sessions, activeSessionId, isLoading, splitView,
                       nextSessionId, nextGroupId>>

\* The awaited setSessionGroup(session.id, null) has resolved.
deleteGroupMoveResolve(keep) ==
    \E c \in Awaiting("deleteGroup", "set_session_group") :
        /\ sessions' = UpdateSession(Head(c.todo), "groupId", NULL)
        /\ DeleteGroupContinue(c, Tail(c.todo), keep)
        /\ UNCHANGED <<activeSessionId, isLoading, splitView, nextSessionId, nextGroupId>>

\* Either host call has rejected: deleteGroup rejects where it stands.
deleteGroupReject(keep) ==
    \E c \in Awaiting("deleteGroup", "delete_group")
             \cup Awaiting("deleteGroup", "set_session_group") :
        /\ calls' = Finish(c, keep, [op |-> "deleteGroup", pc |-> "rejected",
                                    id |-> c.id, before |-> c.before])
        /\ UNCHANGED <<storeVars, nextSessionId, nextGroupId>>

----
\* Split view actions.

InjectiveSeqs(S, n) ==
    {s \in SeqsUpTo(S, n) : \A i, j \in DOMAIN s : s[i] = s[j] => i = j}

\* What an operation of the split view leaves: the split view and the
\* active selection.
Layout(sv, active) == [splitView |-> sv, activeSessionId |-> active]

\* An enableSplitView that takes any number of ids.
EnableSplitViewOfAny(sessionIds, direction) ==
    Layout([enabled |-> TRUE, sessionIds |-> sessionIds, direction |-> direction],
           At(sessionIds, 0))

\* enableSplitView: the split view and the active selection after the call.
EnableSplitView(sessionIds, direction) ==
    IF Len(sessionIds) < 2
    THEN Layout(splitView, activeSessionId)
    ELSE Layout([enabled |-> TRUE, sessionIds |-> sessionIds, direction |-> direction],
                sessionIds[1])

enableSplitView(sessionIds, direction) ==
    /\ splitView' = EnableSplitView(sessionIds, direction).splitView
    /\ activeSessionId' = EnableSplitView(sessionIds, direction).activeSessionId
    /\ UNCHANGED <<sessions, groups, isLoading, hostVars>>

disableSplitView ==
    /\ splitView' = DisabledSplit
    /\ activeSessionId' = IF At(splitView.sessionIds, 0) # NULL
                          THEN At(splitView.sessionIds, 0)
                          ELSE activeSessionId
    /\ UNCHANGED <<sessions, groups, isLoading, hostVars>>

\* An addToSplit that appends a session again that is already shown.
AddToSplitViewAgain(sessionId) ==
    IF ~Has(sessions, sessionId) THEN splitView
    ELSE IF ~splitView.enabled
    THEN (IF activeSessionId # NULL /\ activeSessionId # sessionId
          THEN [enabled |-> TRUE, sessionIds |-> <<activeSessionId, sessionId>>,
                direction |-> "vertical"]
          ELSE splitView)
    ELSE [splitView EXCEPT !.sessionIds = Append(splitView.sessionIds, sessionId)]

\* An addToSplit that starts a split with the active session also when that
\* is the session it is given.
AddToSplitViewBesideItself(sessionId) ==
    IF ~Has(sessions, sessionId) THEN splitView
    ELSE IF ~splitView.enabled
    THEN (IF activeSessionId # NULL
          THEN [enabled |-> TRUE, sessionIds |-> <<activeSessionId, sessionId>>,
                direction |-> "vertical"]
          ELSE splitView)
    ELSE IF sessionId \notin Range(splitView.sessionIds)
    THEN [splitView EXCEPT !.sessionIds = Append(splitView.sessionIds, sessionId)]
    ELSE splitView

\* addToSplit: the split view after the call.
AddToSplitView(sessionId) ==
    IF ~Has(sessions, sessionId) THEN splitView
    ELSE IF ~splitView.enabled
    THEN (IF activeSessionId # NULL /\ activeSessionId # sessionId
          THEN [enabled |-> TRUE, sessionIds |-> <<activeSessionId, sessionId>>,
                direction |-> "vertical"]
          ELSE splitView)
    ELSE IF sessionId \notin Range(splitView.sessionIds)
    THEN [splitView EXCEPT !.sessionIds = Append(splitView.sessionIds, sessionId)]
    ELSE splitView

addToSplit(sessionId) ==
    /\ splitView' = AddToSplitView(sessionId)
    /\ UNCHANGED <<sessions, groups, activeSessionId, isLoading, hostVars>>

\* A removeFromSplit that keeps a split view of fewer than two sessions.
RemoveFromSplitViewKeepingOne(sessionId) ==
    [splitView EXCEPT !.sessionIds = Without(splitView.sessionIds, sessionId)]

\* removeFromSplit: the split view after the call.
RemoveFromSplitView(sessionId) ==
    LET newSessionIds == Without(splitView.sessionIds, sessionId)
    IN  IF Len(newSessionIds) < 2
        THEN DisabledSplit
        ELSE [splitView EXCEPT !.sessionIds = newSessionIds]

\* A removeFromSplit that leaves the active selection as it is.
RemoveFromSplitActiveKept(sessionId) == activeSessionId

\* removeFromSplit: the active selection after the call.
RemoveFromSplitActive(sessionId) ==
    LET newSessionIds == Without(splitView.sessionIds, sessionId)
    IN  IF Len(newSessionIds) < 2 THEN At(newSessionIds, 0) ELSE activeSessionId

removeFromSplit(sessionId) ==
    /\ splitView' = RemoveFromSplitView(sessionId)
    /\ activeSessionId' = RemoveFromSplitActive(sessionId)
    /\ UNCHANGED <<sessions, groups, isLoading, hostVars>>

\* A setSplitDirection that starts from the disabled split view.
SetSplitDirectionFresh(direction) == [DisabledSplit EXCEPT !.direction = direction]

\* setSplitDirection: the split view after the call.
SetSplitDirection(direction) == [splitView EXCEPT !.direction = direction]

setSplitDirection(direction) ==
    /\ splitView' = SetSplitDirection(direction)
    /\ UNCHANGED <<sessions, groups, activeSessionId, isLoading, hostVars>>

\* A splitGroup that splits every session of the registry.
SplitGroupOfAll(groupId, direction) ==
    LET sessionIds == Keys(sessions)
    IN  IF Len(sessionIds) < 2
        THEN Layout(splitView, activeSessionId)
        ELSE Layout([enabled |-> TRUE, sessionIds |-> sessionIds, direction |-> direction],
                    sessionIds[1])

\* splitGroup: the split view and the active selection after the call.
SplitGroup(groupId, direction) ==
    LET sessionIds == Keys(getSessionsInGroup(groupId))
    IN  IF Len(sessionIds) < 2
        THEN Layout(splitView, activeSessionId)
        ELSE Layout([enabled |-> TRUE, sessionIds |-> sessionIds, direction |-> direction],
                    sessionIds[1])

splitGroup(groupId, direction) ==
    /\ splitView' = SplitGroup(groupId, direction).splitView
    /\ activeSessionId' = SplitGroup(groupId, direction).activeSessionId
    /\ UNCHANGED <<sessions, groups, isLoading, hostVars>>

----
\* Keyboard shortcuts of App.

MaxFocusKey == 9

\* if (sessionIds.length > 1 && activeSessionId)
FocusMoves == Len(Keys(sessions)) > 1 /\ activeSessionId # NULL

\* The session Cmd+Shift+] makes active.
FocusNextTarget ==
    LET sessionIds == Keys(sessions)
        currentIndex == IndexOf(sessionIds, activeSessionId)
        nextIndex == (currentIndex + 1) % Len(sessionIds)
    IN  IF FocusMoves THEN At(sessionIds, nextIndex) ELSE activeSessionId

\* A focus-previous that stops at the first session.
FocusPreviousTargetStopping ==
    LET sessionIds == Keys(sessions)
        currentIndex == IndexOf(sessionIds, activeSessionId)
        prevIndex == IF currentIndex = 0 THEN 0 ELSE currentIndex - 1
    IN  IF FocusMoves THEN At(sessionIds, prevIndex) ELSE activeSessionId

\* The session Cmd+Shift+[ makes active.
FocusPreviousTarget ==
    LET sessionIds == Keys(sessions)
        currentIndex == IndexOf(sessionIds, activeSessionId)
        prevIndex == IF currentIndex = 0 THEN Len(sessionIds) - 1 ELSE currentIndex - 1
    IN  IF FocusMoves THEN At(sessionIds, prevIndex) ELSE activeSessionId

\* Cmd+Shift+]
focusNext ==
    /\ FocusMoves
    /\ activeSessionId' = FocusNextTarget
    /\ UNCHANGED <<sessions, groups, isLoading, splitView, hostVars>>

\* Cmd+Shift+[
focusPrevious ==
    /\ FocusMoves
    /\ activeSessionId' = FocusPreviousTarget
    /\ UNCHANGED <<sessions, groups, isLoading, splitView, hostVars>>

\* A focus-by-index that takes the key for the index.
FocusByIndexTargetFromZero(key) ==
    LET sessionIds == Keys(sessions)
        index == key
    IN  IF index < Len(sessionIds) THEN At(sessionIds, index) ELSE activeSessionId

\* The session Cmd+key makes active.
FocusByIndexTarget(key) ==
    LET sessionIds == Keys(sessions)
        index == key - 1
    IN  IF index < Len(sessionIds) THEN At(sessionIds, index) ELSE activeSessionId

\* Cmd+1 .. Cmd+9
focusByIndex(key) ==
    /\ key \in 1..MaxFocusKey
    /\ activeSessionId' = FocusByIndexTarget(key)
    /\ UNCHANGED <<sessions, groups, isLoading, splitView, hostVars>>

----
\* Persistence.

\* The snapshots load_layout may answer with: the saved groups, and per saved
\* session the group it was saved in (null or one of the saved groups) and the
\* status it was saved with.  The saved groups have ids of their own, which the
\* host hands out to no new group.
SavedGroupIds(n) == [i \in 1..n |-> MaxGroups + i]

PersistedStatuses == {"Running", "Stopped", "Error"}

SavedSessions ==
    [group_id : {NULL} \cup {MaxGroups + i : i \in 1..MaxSavedGroups},
     status : PersistedStatuses]

Snapshots ==
    {[groups |-> SavedGroupIds(n), sessions |-> ss] :
        n \in 0..MaxSavedGroups, ss \in SeqsUpTo(SavedSessions, MaxSaved)}

ConsistentSnapshots ==
    {snap \in Snapshots :
        \A i \in DOMAIN snap.sessions :
            snap.sessions[i].group_id \in {NULL} \cup Range(snap.groups)}

\* The groups map built from the snapshot.
LoadedGroups(saved) ==
    [i \in DOMAIN saved |->
        [id |-> saved[i], name |-> NewName, collapsed |-> FALSE, order |-> i - 1]]

\* A restore loop that issues every remaining create request at once.
IssueRemaining(c) ==
    IF c.reqs = {} /\ Len(c.issued) < Len(c.saved)
    THEN (Len(c.issued) + 1)..Len(c.saved)
    ELSE {}

\* The saved sessions whose create request the restore loop issues now: the
\* next one, once no request is outstanding.
IssueNext(c) ==
    IF c.reqs = {} /\ Len(c.issued) < Len(c.saved) THEN {Len(c.issued) + 1} ELSE {}

\* The indices of a set in ascending order.
RECURSIVE Ascending(_)
Ascending(S) ==
    IF S = {} THEN <<>>
    ELSE LET m == CHOOSE x \in S : \A y \in S : x <= y
         IN  <<m>> \o Ascending(S \ {m})

\* A restore that gives up at the first failure.
RestoreFailedAborting(c, k) ==
    [c EXCEPT !.created[k] = 0, !.reqs = {}, !.issued = [i \in 1..Len(c.saved) |-> i]]

\* A restore that remembers the last created session instead of the first.
RestoredLast(c, k, id) ==
    [c EXCEPT !.created[k] = id, !.reqs = c.reqs \ {k}, !.firstSessionId = id]

\* The catch around one session's restore: the session is skipped.
RestoreFailed(c, k) == [c EXCEPT !.created[k] = 0, !.reqs = c.reqs \ {k}]

\* One restore succeeded with the session id the host gave.
Restored(c, k, id) ==
    [c EXCEPT !.created[k] = id, !.reqs = c.reqs \ {k},
              !.firstSessionId = IF c.firstSessionId = NULL THEN id ELSE c.firstSessionId]

\* The restore loop after a create request has settled (or at its start):
\* the next request is issued, or the loop is over and the active session set.
\* `before` keeps the session ids as they were when the restore began.
RestoreContinue(c, d, keep) ==
    LET now == IssueNext(d)
    IN  IF now = {} /\ d.reqs = {}
        THEN /\ activeSessionId' = d.firstSessionId
             /\ isLoading' = FALSE
             /\ calls' = Finish(c, keep, [d EXCEPT !.pc = "resolved"])
        ELSE /\ UNCHANGED <<activeSessionId, isLoading>>
             /\ calls' = ReplaceCall(c, [d EXCEPT !.reqs = d.reqs \cup now,
                                                  !.issued = d.issued \o Ascending(now)])

\* App calls saveLayout from the interval callback and from the beforeunload
\* handler, each with a catch on the promise.
SaveCallers == {"interval", "beforeunload"}

\* saveLayout: await tauri.saveLayout()
saveLayout(lim, caller) ==
    /\ InProgress < lim
    /\ calls' = AddCall([op |-> "saveLayout", pc |-> "await", caller |-> caller])
    /\ UNCHANGED <<storeVars, nextSessionId, nextGroupId>>

\* setInterval(() => { if (sessions.size > 0) saveLayout().catch(console.error) })
autoSave(lim) == Len(sessions) > 0 /\ saveLayout(lim, "interval")

\* handleBeforeUnload: saveLayout().catch(() => {})
handleBeforeUnload(lim) == saveLayout(lim, "beforeunload")

\* save_layout has resolved: saveLayout resolves.
saveLayoutResolve ==
    \E c \in Awaiting("saveLayout", "await") :
        /\ calls' = ReplaceCall(c, [c EXCEPT !.pc = "resolved"])
        /\ UNCHANGED <<storeVars, nextSessionId, nextGroupId>>

\* A saveLayout that swallows the rejection of save_layout: the failure ends
\* in it and nothing is handed to the caller.
saveLayoutRejectHandled ==
    \E c \in Awaiting("saveLayout", "await") :
        /\ calls' = calls (-) SetToBag({c})
        /\ UNCHANGED <<storeVars, nextSessionId, nextGroupId>>

\* save_layout has rejected: nothing in saveLayout handles it, its promise
\* rejects.
saveLayoutReject ==
    \E c \in Awaiting("saveLayout", "await") :
        /\ calls' = ReplaceCall(c, [c EXCEPT !.pc = "rejected"])
        /\ UNCHANGED <<storeVars, nextSessionId, nextGroupId>>

\* The caller's catch handles the rejection (console.error, or nothing).
saveLayoutCatch ==
    \E c \in Awaiting("saveLayout", "rejected") :
        /\ c.caller \in SaveCallers
        /\ calls' = ReplaceCall(c, [c EXCEPT !.pc = "caught"])
        /\ UNCHANGED <<storeVars, nextSessionId, nextGroupId>>

\* The promise the caller holds has settled and is dropped.
saveLayoutSettled ==
    \E c \in Awaiting("saveLayout", "resolved") \cup Awaiting("saveLayout", "caught") :
        /\ calls' = calls (-) SetToBag({c})
        /\ UNCHANGED <<storeVars, nextSessionId, nextGroupId>>

loadLayout(lim) ==
    /\ InProgress < lim
    /\ isLoading' = TRUE
    /\ calls' = AddCall([op |-> "loadLayout", pc |-> "load"])
    /\ UNCHANGED <<sessions, groups, activeSessionId, splitView, nextSessionId, nextGroupId>>

\* load_layout answered null, or rejected: nothing is restored.
LoadedNothing(path) ==
    [op |-> "loadLayout", pc |-> "resolved", path |-> path, groups |-> <<>>,
     saved |-> <<>>, created |-> <<>>, reqs |-> {}, issued |-> <<>>,
     firstSessionId |-> NULL]

\* A loadLayout that takes a missing snapshot for an empty one and goes on
\* to restore it.
loadLayoutNoneAsEmpty(keep) ==
    \E c \in Awaiting("loadLayout", "load") :
        /\ groups' = <<>>
        /\ activeSessionId' = NULL
        /\ isLoading' = FALSE
        /\ calls' = Finish(c, keep, LoadedNothing("none"))
        /\ UNCHANGED <<sessions, splitView, nextSessionId, nextGroupId>>

loadLayoutNone(keep) ==
    \E c \in Awaiting("loadLayout", "load") :
        /\ isLoading' = FALSE
        /\ calls' = Finish(c, keep, LoadedNothing("none"))
        /\ UNCHANGED <<sessions, groups, activeSessionId, splitView, nextSessionId, nextGroupId>>

loadLayoutFailed(keep) ==
    \E c \in Awaiting("loadLayout", "load") :
        /\ isLoading' = FALSE
        /\ calls' = Finish(c, keep, LoadedNothing("failed"))
        /\ UNCHANGED <<sessions, groups, activeSessionId, splitView, nextSessionId, nextGroupId>>

loadLayoutSnapshot(keep) ==
    \E c \in Awaiting("loadLayout", "load"), state \in ConsistentSnapshots :
        /\ Len(state.sessions) <= FreeSessionIds
        /\ groups' = LoadedGroups(state.groups)
        /\ RestoreContinue(c, [op |-> "loadLayout", pc |-> "create", path |-> "restored",
                               groups |-> state.groups, saved |-> state.sessions,
                               created |-> [i \in DOMAIN state.sessions |-> -1],
                               reqs |-> {}, issued |-> <<>>, firstSessionId |-> NULL,
                               before |-> Keys(sessions)], keep)
        /\ UNCHANGED <<sessions, splitView, nextSessionId, nextGroupId>>

\* tauri.createSession for saved session k has resolved.
loadLayoutCreateResolve(keep) ==
    \E c \in Awaiting("loadLayout", "create") : \E k \in c.reqs :
        LET session == NewSession(HostSessionInfo(c.saved[k].group_id))
        IN  /\ sessions' = MapSet(sessions, session)
            /\ nextSessionId' = nextSessionId + 1
            /\ RestoreContinue(c, Restored(c, k, session.id), keep)
            /\ UNCHANGED <<groups, splitView, nextGroupId>>

\* tauri.createSession for saved session k has rejected.
loadLayoutCreateReject(keep) ==
    \E c \in Awaiting("loadLayout", "create") : \E k \in c.reqs :
        /\ RestoreContinue(c, RestoreFailed(c, k), keep)
        /\ UNCHANGED <<sessions, groups, splitView, nextSessionId, nextGroupId>>

\* The caller of an async operation takes its outcome.
Return ==
    \E c \in BagToSet(calls) :
        /\ c.pc \in {"resolved", "rejected"}
        /\ calls' = calls (-) SetToBag({c})
        /\ UNCHANGED <<storeVars, nextSessionId, nextGroupId>>

----
\* SplitTerminalView: the pane sizes, in units of 1/Percent of a percent so
\* that equal shares of 100 are whole numbers.

Percent == 3 * 4 * 5

Full == 100 * Percent

MinPaneSize == 10

MaxPaneSize == 90

NaN == 0 - 1          \* NaN, and undefined where a number is expected

NoIndex == 0 - 1      \* resizingIndex === null

Max(a, b) == IF a >= b THEN a ELSE b

Min(a, b) == IF a <= b THEN a ELSE b

\* sessionIds.map(() => 100 / sessionIds.length)
\* Shares in which the first pane is twice as wide as each of the others.
UnequalShares(n) == [i \in 1..n |-> IF i = 1 THEN (2 * Full) \div (n + 1) ELSE Full \div (n + 1)]

EqualShares(n) == [i \in 1..n |-> Full \div n]

\* paneSizes[i] for a 0-based i, as a number.
PaneAt(sizes, i) == IF i >= 0 /\ i < Len(sizes) THEN sizes[i + 1] ELSE NaN

\* A cumulative size that counts the pane before the divider as well.
RECURSIVE CumulativeThrough(_, _)
CumulativeThrough(sizes, index) ==
    IF index < 0 THEN 0
    ELSE LET before == CumulativeThrough(sizes, index - 1)
             here == PaneAt(sizes, index)
         IN  IF before = NaN \/ here = NaN THEN NaN ELSE before + here

\* The cumulative size of the panes before the divider.
RECURSIVE Cumulative(_, _)
Cumulative(sizes, index) ==
    IF index = 0 THEN 0
    ELSE LET before == Cumulative(sizes, index - 1)
             here == PaneAt(sizes, index - 1)
         IN  IF before = NaN \/ here = NaN THEN NaN ELSE before + here

\* A new size that is held at the minimum only.
NewSizeWithoutMaximum(sizes, index, mousePercent) ==
    LET cumulative == Cumulative(sizes, index)
    IN  IF cumulative = NaN THEN NaN
        ELSE Max(MinPaneSize * Percent, mousePercent - cumulative)

\* The new size of the pane before the divider.
NewSize(sizes, index, mousePercent) ==
    LET cumulative == Cumulative(sizes, index)
    IN  IF cumulative = NaN THEN NaN
        ELSE Max(MinPaneSize * Percent, Min(MaxPaneSize * Percent, mousePercent - cumulative))

\* A resize that leaves the pane after the divider as it is.
NeighbourSizeUnchanged(sizes, index, newSize) == PaneAt(sizes, index + 1)

\* A neighbour that is held at the maximum as well as at the minimum.
NeighbourSizeHeldAtMaximum(sizes, index, newSize) ==
    IF newSize = NaN \/ PaneAt(sizes, index) = NaN \/ PaneAt(sizes, index + 1) = NaN
    THEN NaN
    ELSE Max(MinPaneSize * Percent,
             Min(MaxPaneSize * Percent,
                 PaneAt(sizes, index + 1) - (newSize - PaneAt(sizes, index))))

\* The pane after the divider takes the change, and is at least the minimum.
NeighbourSize(sizes, index, newSize) ==
    IF newSize = NaN \/ PaneAt(sizes, index) = NaN \/ PaneAt(sizes, index + 1) = NaN
    THEN NaN
    ELSE Max(MinPaneSize * Percent,
             PaneAt(sizes, index + 1) - (newSize - PaneAt(sizes, index)))

\* handleMouseMove: the pane sizes after the pointer moved to mousePercent
\* with the divider `index` held.  Writing past the end of the array grows it.
ResizeDivider(sizes, index, mousePercent) ==
    LET newSize == NewSize(sizes, index, mousePercent)
    IN  [i \in 1..Max(Len(sizes), index + 2) |->
            IF i = index + 1 THEN newSize
            ELSE IF i = index + 2 THEN NeighbourSize(sizes, index, newSize)
            ELSE PaneAt(sizes, i - 1)]

\* The move left the total as it was: both panes exist and the neighbour was
\* not held at the minimum.
KeepsTotal(sizes, index, mousePercent) ==
    LET newSize == NewSize(sizes, index, mousePercent)
    IN  /\ newSize # NaN /\ PaneAt(sizes, index) # NaN /\ PaneAt(sizes, index + 1) # NaN
        /\ PaneAt(sizes, index + 1) - (newSize - PaneAt(sizes, index)) >= MinPaneSize * Percent

PointerPositions == {(k * Full) \div PointerSteps : k \in 0..PointerSteps}

\* The view is rendered while the split view is enabled.
Mounted(sv) == sv.enabled

\* The reset effect of the last render has not run yet.
EffectPending == Mounted(splitView) /\ effectLen # Len(splitView.sessionIds)

Unmounted ==
    /\ paneSizes' = <<>>
    /\ resizingIndex' = NoIndex
    /\ effectLen' = 0
    /\ moves' = 0
    /\ drifted' = FALSE

\* useState's initial value, and the reset effect: equal shares.
ResetPaneSizes(n) ==
    /\ paneSizes' = EqualShares(n)
    /\ effectLen' = n
    /\ moves' = 0
    /\ drifted' = FALSE

\* The view after the store has changed: it is mounted or unmounted with the
\* split view; while it stays mounted it renders again with the pane sizes it
\* has (an effect still pending from the render before runs first), and the
\* reset effect of the new render runs later.
Rerender ==
    IF ~Mounted(splitView') THEN Unmounted
    ELSE IF ~Mounted(splitView)
    THEN ResetPaneSizes(Len(splitView'.sessionIds)) /\ resizingIndex' = NoIndex
    ELSE IF EffectPending
    THEN ResetPaneSizes(Len(splitView.sessionIds)) /\ UNCHANGED resizingIndex
    ELSE UNCHANGED viewVars

\* The effect on [sessionIds.length].
resetEffect ==
    /\ EffectPending
    /\ ResetPaneSizes(Len(splitView.sessionIds))
    /\ UNCHANGED <<resizingIndex, storeVars, hostVars, bridgeVars, sidebar>>

handleMouseDown(index) ==
    /\ Mounted(splitView)
    /\ index \in 0..(Len(splitView.sessionIds) - 2)
    /\ resizingIndex' = index
    /\ UNCHANGED <<paneSizes, effectLen, moves, drifted, storeVars, hostVars, bridgeVars, sidebar>>

handleMouseMove(mousePercent) ==
    /\ Mounted(splitView)
    /\ resizingIndex # NoIndex
    /\ moves < MaxMoves
    /\ paneSizes' = ResizeDivider(paneSizes, resizingIndex, mousePercent)
    /\ moves' = moves + 1
    /\ drifted' = (drifted \/ ~KeepsTotal(paneSizes, resizingIndex, mousePercent))
    /\ UNCHANGED <<resizingIndex, effectLen, storeVars, hostVars, bridgeVars, sidebar>>

handleMouseUp ==
    /\ Mounted(splitView)
    /\ resizingIndex # NoIndex
    /\ resizingIndex' = NoIndex
    /\ UNCHANGED <<paneSizes, effectLen, moves, drifted, storeVars, hostVars, bridgeVars, sidebar>>

----
\* Sidebar: the groups sorted by order, each with its sessions, and the
\* sessions of no group below them.

\* A sort that puts a group before the groups of the same order that are
\* already placed.
InsertBeforeEqual(sorted, g) ==
    LET k == Cardinality({i \in DOMAIN sorted : sorted[i].order < g.order})
    IN  SubSeq(sorted, 1, k) \o <<g>> \o SubSeq(sorted, k + 1, Len(sorted))

\* Array.prototype.sort is stable: a group is placed behind every group
\* placed before it whose order is not greater.
InsertByOrder(sorted, g) ==
    LET k == Cardinality({i \in DOMAIN sorted : sorted[i].order <= g.order})
    IN  SubSeq(sorted, 1, k) \o <<g>> \o SubSeq(sorted, k + 1, Len(sorted))

\* Array.from(gs.values()).sort((a, b) => a.order - b.order)
RECURSIVE SortGroups(_)
SortGroups(gs) ==
    IF gs = <<>> THEN <<>>
    ELSE InsertByOrder(SortGroups(SubSeq(gs, 1, Len(gs) - 1)), gs[Len(gs)])

\* getSessionsInGroup, called by a render: it reads the registry as it is then.
SessionsInGroup(ss, groupId) == SelectSeq(ss, LAMBDA s : s.groupId = groupId)

\* The sessions handed to the GroupItems, group after group.
RECURSIVE GroupItems(_, _)
GroupItems(gs, ss) ==
    IF gs = <<>> THEN <<>>
    ELSE Keys(SessionsInGroup(ss, Head(gs).id)) \o GroupItems(Tail(gs), ss)

\* What Sidebar lists with groups gs and sessions ss: the ids of the groups,
\* and the ids of the sessions, those of no group last (a collapsed group is
\* given its sessions too and hides them itself).
Sidebar(gs, ss) ==
    LET sortedGroups == SortGroups(gs)
        ungroupedSessions == SessionsInGroup(ss, NULL)
    IN  [groups |-> Keys(sortedGroups),
         sessions |-> GroupItems(sortedGroups, ss) \o Keys(ungroupedSessions)]

FirstRender == sidebar = Sidebar(groups, sessions)

\* Sidebar renders again after the step, with the store as it is then.
RenderSidebar == sidebar' = Sidebar(groups', sessions')

----
\* useTerminal: App renders one TerminalPane per session of the registry,
\* keyed by the session id.  The pane's effects build its terminal and hand
\* a callback to onPtyOutput and to onPtyExit; a callback is attached when
\* the listen request resolves.  The host emits every event once, to the
\* callbacks attached at that time.

OutputEvent == "pty-output"

ExitEvent == "pty-exit"

\* No pane is rendered and the host has emitted nothing.
NoPanes ==
    /\ terminals = <<>>
    /\ listeners = {}
    /\ emitted = [outputs |-> 0, exits |-> 0]

\* The length of the shared stream.
Emitted == emitted.outputs + emitted.exits

\* The bytes of an output event are named by the session whose process wrote
\* them and by the event's position in the stream.
Bytes(id, seq) == [id |-> id, seq |-> seq]

\* What a terminal has been given to write: the data of an output event, or
\* the exit notice.
Chunk(data) == [event |-> OutputEvent, data |-> data]

ExitNotice == [event |-> ExitEvent, data |-> Bytes(NULL, NULL)]

\* terminalRef.current.write
Write(ts, id, item) == [ts EXCEPT ![id].written = Append(@, item)]

Listening(event) == {l \in listeners : l.event = event /\ l.state = "listening"}

\* status: "running" | "stopped" | "error"
Statuses == {"running", "stopped", "error"}

\* An updateSessionStatus that stores a session built anew, not a copy of
\* the one it found.
updateSessionStatusRebuilding(id, status) ==
    IF Has(sessions, id)
    THEN MapSet(sessions,
                [NewSession([id |-> id, group_id |-> MapGet(sessions, id).groupId])
                    EXCEPT !.status = status])
    ELSE sessions

\* updateSessionStatus
updateSessionStatus(id, status) == UpdateSession(id, "status", status)

\* The first render with session id in the registry: the terminal is built
\* and both listen requests are sent.
mountPane(id) ==
    /\ Has(sessions, id)
    /\ id \notin DOMAIN terminals
    /\ terminals' = terminals @@ (id :> [written |-> <<>>, disposed |-> FALSE])
    /\ listeners' = listeners \cup
           {[event |-> e, sessionId |-> id, state |-> "registering"] :
                e \in {OutputEvent, ExitEvent}}
    /\ sessions' = UpdateSession(id, "terminal", id)
    /\ UNCHANGED <<emitted, groups, activeSessionId, isLoading, splitView, hostVars, viewVars, sidebar>>

\* .then((fn) => { unlisten = fn; })
listenResolve(l) ==
    /\ l \in listeners
    /\ l.state = "registering"
    /\ listeners' = (listeners \ {l}) \cup {[l EXCEPT !.state = "listening"]}
    /\ UNCHANGED <<terminals, emitted, storeVars, hostVars, viewVars, sidebar>>

\* The render after session id has left the registry: the cleanups run.  The
\* terminal is disposed and forgotten; a listener is removed when its
\* unlisten function has arrived, and stays otherwise.
unmountPane(id) ==
    /\ id \in DOMAIN terminals
    /\ ~Has(sessions, id)
    /\ terminals' = [i \in DOMAIN terminals \ {id} |-> terminals[i]]
    /\ listeners' = {l \in listeners : ~(l.sessionId = id /\ l.state = "listening")}
    /\ UNCHANGED <<emitted, storeVars, hostVars, viewVars, sidebar>>

\* deleteSession disposes the terminal of the session it removes.
DisposeDeleted ==
    terminals' = [id \in DOMAIN terminals |->
                     IF Has(sessions, id) /\ ~Has(sessions', id)
                     THEN [terminals[id] EXCEPT !.disposed = TRUE]
                     ELSE terminals[id]]

\* An output callback that writes the events of every session.
ReceivesAny(l, payload) == l.sessionId \in DOMAIN terminals

\* The output callback writes when this holds: the event is of the callback's
\* session and the pane has its terminal.
Receives(l, payload) == payload.id = l.sessionId /\ l.sessionId \in DOMAIN terminals

\* The sessions the host has created.
HostSessionIds == 1..(nextSessionId - 1)

\* The host emits an output event; every attached output callback runs.
ptyOutput(id) ==
    LET payload == [id |-> id, data |-> Bytes(id, Emitted + 1)]
    IN  /\ Emitted < MaxEvents
        /\ id \in HostSessionIds
        /\ emitted' = [emitted EXCEPT !.outputs = @ + 1]
        /\ terminals' = [t \in DOMAIN terminals |->
                             IF \E l \in Listening(OutputEvent) :
                                    l.sessionId = t /\ Receives(l, payload)
                             THEN Write(terminals, t, Chunk(payload.data))[t]
                             ELSE terminals[t]]
        /\ UNCHANGED <<listeners, storeVars, hostVars, viewVars, sidebar>>

\* The host emits an exit event; every attached exit callback runs.
ptyExit(id) ==
    LET payload == [id |-> id]
        heard == {l \in Listening(ExitEvent) : payload.id = l.sessionId}
    IN  /\ Emitted < MaxEvents
        /\ id \in HostSessionIds
        /\ emitted' = [emitted EXCEPT !.exits = @ + 1]
        /\ sessions' = IF heard # {} THEN updateSessionStatus(id, "stopped") ELSE sessions
        /\ terminals' = IF heard # {} /\ id \in DOMAIN terminals
                        THEN Write(terminals, id, ExitNotice)
                        ELSE terminals
        /\ UNCHANGED <<listeners, groups, activeSessionId, isLoading, splitView,
                       hostVars, viewVars, sidebar>>

----
\* The store after construction; the split view component is not mounted.

SessionIds == 1..MaxSessions

Init ==
    /\ sessions = <<>>
    /\ groups = <<>>
    /\ activeSessionId = NULL
    /\ isLoading = FALSE
    /\ splitView = DisabledSplit
    /\ calls = EmptyBag
    /\ nextSessionId = 1
    /\ nextGroupId = 1
    /\ paneSizes = <<>>
    /\ resizingIndex = NoIndex
    /\ effectLen = 0
    /\ moves = 0
    /\ drifted = FALSE
    /\ NoPanes
    /\ FirstRender

\* The arrays passed to enableSplitView: distinct ids (of sessions in the registry).
SplitArgs == InjectiveSeqs(SessionIds, MaxSplit)

\* A step of the store where the components that render it are not followed.
StoreStep(A) == A /\ UNCHANGED viewVars /\ UNCHANGED bridgeVars /\ UNCHANGED sidebar

\* A step of the store after which Sidebar renders.
ListedStep(A) == A /\ RenderSidebar /\ UNCHANGED viewVars /\ UNCHANGED bridgeVars

Focus ==
    \/ \E id \in SessionIds : setActiveSession(id)
    \/ focusNext
    \/ focusPrevious
    \/ \E key \in 1..MaxFocusKey : focusByIndex(key)

Split ==
    \/ \E ids \in SplitArgs, d \in Directions :
           Range(ids) \subseteq KeySet(sessions) /\ enableSplitView(ids, d)
    \/ disableSplitView
    \/ \E id \in SessionIds : addToSplit(id)
    \/ \E id \in SessionIds : removeFromSplit(id)
    \/ \E d \in Directions : setSplitDirection(d)
    \/ \E g \in KeySet(groups), d \in Directions : splitGroup(g, d)

SessionCall(lim) ==
    \/ \E g \in {NULL} \cup KeySet(groups) : createSession(lim, g)
    \/ \E id \in SessionIds : deleteSession(lim, id)

SessionAnswer(keep) ==
    \/ createSessionResolve(keep)
    \/ createSessionReject(keep)
    \/ deleteSessionResolve(keep)
    \/ deleteSessionReject(keep)

GroupCall(lim) ==
    \/ \E id \in SessionIds, g \in {NULL} \cup KeySet(groups) : setSessionGroup(lim, id, g)
    \/ createGroup(lim)
    \/ \E g \in KeySet(groups) : deleteGroup(lim, g)

GroupAnswer(keep) ==
    \/ setSessionGroupResolve(keep)
    \/ setSessionGroupReject(keep)
    \/ createGroupResolve(keep)
    \/ createGroupReject(keep)
    \/ deleteGroupHostResolve(keep)
    \/ deleteGroupMoveResolve(keep)
    \/ deleteGroupReject(keep)

LoadAnswer(keep) ==
    \/ loadLayoutNone(keep)
    \/ loadLayoutFailed(keep)
    \/ loadLayoutSnapshot(keep)
    \/ loadLayoutCreateResolve(keep)
    \/ loadLayoutCreateReject(keep)

\* The session registry, the active selection and the split view: the
\* synchronous operations interleave with one asynchronous operation at a
\* time, between its call and its answer.
Next ==
    \/ StoreStep(\E id \in SessionIds : setActiveSession(id))
    \/ StoreStep(Split)
    \/ StoreStep(SessionCall(1))
    \/ StoreStep(SessionAnswer(FALSE))
    \/ StoreStep(groups = <<>> /\ createGroup(1))
    \/ StoreStep(createGroupResolve(FALSE))
    \/ StoreStep(createGroupReject(FALSE))

Spec == Init /\ [][Next]_vars

\* The registry, the active selection, the split view and the restore of a
\* snapshot, interleaving.
NextRestore ==
    \/ StoreStep(Focus)
    \/ StoreStep(Split)
    \/ StoreStep(SessionCall(MaxCalls))
    \/ StoreStep(SessionAnswer(FALSE))
    \/ StoreStep(loadLayout(MaxCalls))
    \/ StoreStep(LoadAnswer(FALSE))

SpecRestore == Init /\ [][NextRestore]_vars

\* Sessions and groups, interleaving.
NextGroups ==
    \/ StoreStep(SessionCall(MaxCalls))
    \/ StoreStep(SessionAnswer(FALSE))
    \/ StoreStep(GroupCall(MaxCalls))
    \/ StoreStep(GroupAnswer(FALSE))

SpecGroups == Init /\ [][NextGroups]_vars

\* Sessions and groups, one operation at a time.
NextGroupsSeq ==
    \/ StoreStep(SessionCall(1))
    \/ StoreStep(SessionAnswer(TRUE))
    \/ StoreStep(GroupCall(1))
    \/ StoreStep(GroupAnswer(TRUE))
    \/ StoreStep(Return)

SpecGroupsSeq == Init /\ [][NextGroupsSeq]_vars

\* The restore of a snapshot with nothing else in progress.
NextLoad ==
    \/ StoreStep(SessionCall(1))
    \/ StoreStep(SessionAnswer(TRUE))
    \/ StoreStep(loadLayout(1))
    \/ StoreStep(LoadAnswer(TRUE))
    \/ StoreStep(Return)

SpecLoad == Init /\ [][NextLoad]_vars

\* The registry and the periodic and shutdown saves of the layout.
NextSave ==
    \/ StoreStep(SessionCall(MaxCalls))
    \/ StoreStep(SessionAnswer(FALSE))
    \/ StoreStep(autoSave(MaxCalls))
    \/ StoreStep(handleBeforeUnload(MaxCalls))
    \/ StoreStep(saveLayoutResolve)
    \/ StoreStep(saveLayoutReject)
    \/ StoreStep(saveLayoutCatch)
    \/ StoreStep(saveLayoutSettled)

SpecSave == Init /\ [][NextSave]_vars

\* The groups maps the sidebar is looked at with: up to MaxListed groups in
\* any insertion order, with any orders, equal ones too (the orders are the
\* host's, or a snapshot's).
GroupMaps ==
    UNION {{[i \in 1..n |->
                [id |-> ids[i], name |-> NewName, collapsed |-> FALSE,
                 order |-> orders[i]]] :
               ids \in {s \in InjectiveSeqs(1..MaxListed, MaxListed) : Len(s) = n},
               orders \in [1..n -> 0..MaxOrder]} : n \in 0..MaxListed}

InitSidebar ==
    /\ sessions = <<>>
    /\ groups \in GroupMaps
    /\ activeSessionId = NULL
    /\ isLoading = FALSE
    /\ splitView = DisabledSplit
    /\ calls = EmptyBag
    /\ nextSessionId = 1
    /\ nextGroupId = MaxListed + 1
    /\ paneSizes = <<>>
    /\ resizingIndex = NoIndex
    /\ effectLen = 0
    /\ moves = 0
    /\ drifted = FALSE
    /\ NoPanes
    /\ FirstRender

\* The sidebar over a map of groups that are renamed.
NextSidebar ==
    \/ ListedStep(\E g \in KeySet(groups) : renameGroup(1, g, Renamed))
    \/ ListedStep(renameGroupResolve(FALSE))
    \/ ListedStep(renameGroupReject(FALSE))

SpecSidebar == InitSidebar /\ [][NextSidebar]_vars

\* The registry and every way of choosing the active session.
NextKeys ==
    \/ StoreStep(Focus)
    \/ StoreStep(SessionCall(MaxCalls))
    \/ StoreStep(SessionAnswer(FALSE))

SpecKeys == Init /\ [][NextKeys]_vars

\* Sessions and groups, interleaving, with the sidebar that lists them.
NextListing ==
    \/ ListedStep(SessionCall(MaxCalls))
    \/ ListedStep(SessionAnswer(FALSE))
    \/ ListedStep(GroupCall(MaxCalls))
    \/ ListedStep(GroupAnswer(FALSE))

SpecListing == Init /\ [][NextListing]_vars

\* loadLayout called up to MaxCalls times (the mount effect of App, run
\* again when App is mounted again), the calls overlapping; the outcomes stay,
\* so no further call is made.
NextLoadFair ==
    \/ StoreStep(loadLayout(MaxCalls))
    \/ StoreStep(LoadAnswer(TRUE))

\* The host's answer to a load_layout command that is awaited.
HostAnswersLoad ==
    StoreStep(loadLayoutNone(TRUE) \/ loadLayoutFailed(TRUE) \/ loadLayoutSnapshot(TRUE))

\* The host's answer to a create_session command that a restore awaits.
HostAnswersCreate ==
    StoreStep(loadLayoutCreateResolve(TRUE) \/ loadLayoutCreateReject(TRUE))

\* Every host call eventually resolves or rejects.
SpecLoadFair ==
    /\ Init
    /\ [][NextLoadFair]_vars
    /\ WF_vars(HostAnswersLoad)
    /\ WF_vars(HostAnswersCreate)

\* The registry and the focus shortcuts that step through it.
NextFocus ==
    \/ StoreStep(focusNext)
    \/ StoreStep(focusPrevious)
    \/ StoreStep(SessionCall(MaxCalls))
    \/ StoreStep(SessionAnswer(FALSE))

SpecFocus == Init /\ [][NextFocus]_vars

\* The split view over a registry of MaxSessions sessions, the last created
\* one active.
InitPanes ==
    /\ sessions = [i \in 1..MaxSessions |-> NewSession([id |-> i, group_id |-> NULL])]
    /\ groups = <<>>
    /\ activeSessionId = MaxSessions
    /\ isLoading = FALSE
    /\ splitView = DisabledSplit
    /\ calls = EmptyBag
    /\ nextSessionId = MaxSessions + 1
    /\ nextGroupId = 1
    /\ paneSizes = <<>>
    /\ resizingIndex = NoIndex
    /\ effectLen = 0
    /\ moves = 0
    /\ drifted = FALSE
    /\ NoPanes
    /\ FirstRender

\* The sizes a pane is drawn with where the resize is looked at on its own.
SizeChoices == {(k * Full) \div PointerSteps : k \in 1..(PointerSteps - 1)}

\* The split view of the first n sessions of the registry, with any pane
\* sizes and any divider held.
InitResize ==
    /\ sessions = [i \in 1..MaxSessions |-> NewSession([id |-> i, group_id |-> NULL])]
    /\ groups = <<>>
    /\ activeSessionId = 1
    /\ isLoading = FALSE
    /\ calls = EmptyBag
    /\ nextSessionId = MaxSessions + 1
    /\ nextGroupId = 1
    /\ moves = 0
    /\ drifted = FALSE
    /\ NoPanes
    /\ FirstRender
    /\ \E n \in 2..MaxSessions :
           /\ splitView = [enabled |-> TRUE, sessionIds |-> [i \in 1..n |-> i],
                           direction |-> "vertical"]
           /\ effectLen = n
           /\ paneSizes \in [1..n -> SizeChoices]
           /\ resizingIndex \in {NoIndex} \cup 0..(n - 2)

NextResize ==
    \/ \E index \in 0..(MaxSessions - 2) : handleMouseDown(index)
    \/ \E mousePercent \in PointerPositions : handleMouseMove(mousePercent)
    \/ handleMouseUp

SpecResize == InitResize /\ [][NextResize]_vars

\* A call of updateSessionStatus (the exit callback of useTerminal calls it).
updateStatus(id, status) ==
    /\ sessions' = updateSessionStatus(id, status)
    /\ UNCHANGED <<groups, activeSessionId, isLoading, splitView, hostVars>>

\* A session or a group is deleted while another call, which may refer to
\* it, is still awaited.
StaleAnswer(keep) ==
    \/ renameSessionResolve(keep)
    \/ renameSessionReject(FALSE)
    \/ renameGroupResolve(keep)
    \/ renameGroupReject(FALSE)
    \/ toggleGroupCollapsedResolve(keep)
    \/ toggleGroupCollapsedReject(FALSE)

NextStale ==
    \/ StoreStep(nextSessionId <= MaxStale /\ createSession(1, NULL))
    \/ StoreStep(\E id \in KeySet(sessions) : deleteSession(2, id))
    \/ StoreStep(SessionAnswer(FALSE))
    \/ StoreStep(\E id \in SessionIds, g \in {NULL} \cup KeySet(groups) :
                     setSessionGroup(1, id, g))
    \/ StoreStep(nextGroupId = 1 /\ createGroup(1))
    \/ StoreStep(\E g \in KeySet(groups) : deleteGroup(2, g))
    \/ StoreStep(GroupAnswer(FALSE))
    \/ StoreStep(\E id \in SessionIds : renameSession(1, id, Renamed))
    \/ StoreStep(\E g \in KeySet(groups) : renameGroup(1, g, Renamed))
    \/ StoreStep(\E g \in KeySet(groups) : toggleGroupCollapsed(1, g))
    \/ StoreStep(StaleAnswer(TRUE))
    \/ StoreStep(\E id \in HostSessionIds : updateStatus(id, "stopped"))
    \/ StoreStep(\E id \in HostSessionIds : setSessionTerminal(id, id))
    \/ StoreStep(Return)

SpecStale == Init /\ [][NextStale]_vars

\* The registry and the status and the terminal of its sessions, set also
\* for sessions that have been deleted.
NextStatus ==
    \/ StoreStep(nextSessionId <= MaxPanes /\ createSession(1, NULL))
    \/ StoreStep(\E id \in SessionIds : deleteSession(1, id))
    \/ StoreStep(SessionAnswer(FALSE))
    \/ StoreStep(\E id \in HostSessionIds, status \in Statuses : updateStatus(id, status))
    \/ StoreStep(\E id \in HostSessionIds : setSessionTerminal(id, id))

SpecStatus == Init /\ [][NextStatus]_vars

\* The registry with its panes and the host's events.
BridgeStep(A) ==
    A /\ DisposeDeleted /\ UNCHANGED <<listeners, emitted, viewVars, sidebar>>

NextBridge ==
    \/ BridgeStep(nextSessionId <= MaxPanes /\ createSession(1, NULL))
    \/ BridgeStep(\E id \in SessionIds : deleteSession(1, id))
    \/ BridgeStep(SessionAnswer(FALSE))
    \/ \E id \in SessionIds : mountPane(id)
    \/ \E l \in listeners : listenResolve(l)
    \/ \E id \in SessionIds : unmountPane(id)
    \/ \E id \in SessionIds : ptyOutput(id)
    \/ \E id \in SessionIds : ptyExit(id)

SpecBridge == Init /\ [][NextBridge]_vars

ViewStep(A) == A /\ Rerender /\ UNCHANGED bridgeVars /\ UNCHANGED sidebar

\* The view computes with the number of split sessions only, so the split view
\* is enabled on the first sessions of the registry and shrunk at its end;
\* any session is added.
NextPanes ==
    \/ ViewStep(\E ids \in SplitArgs :
                   ids = [i \in 1..Len(ids) |-> i] /\ enableSplitView(ids, "vertical"))
    \/ ViewStep(disableSplitView)
    \/ ViewStep(\E id \in SessionIds : addToSplit(id))
    \/ ViewStep(removeFromSplit(At(splitView.sessionIds, Len(splitView.sessionIds) - 1)))
    \/ resetEffect
    \/ \E index \in 0..(MaxSessions - 2) : handleMouseDown(index)
    \/ \E mousePercent \in PointerPositions : handleMouseMove(mousePercent)
    \/ handleMouseUp

SpecPanes == InitPanes /\ [][NextPanes]_vars

----
\* Properties.

\* The operations in progress and settled, by kind.
LoadLayouts == {c \in BagToSet(calls) : c.op = "loadLayout"}

RestoresDone == {c \in LoadLayouts : c.pc = "resolved" /\ c.path = "restored"}

Restoring == {c \in LoadLayouts : c.pc = "create"}

DeleteGroupsDone == {c \in BagToSet(calls) : c.op = "deleteGroup" /\ c.pc = "resolved"}

\* The members of group g among the sessions `before`.
MembersOf(before, g) == {before[i].id : i \in {j \in DOMAIN before : before[j].groupId = g}}

\* The ids of the saved sessions whose create succeeded, in persisted order.
CreatedIds(created) == SelectSeq(created, LAMBDA id : id > 0)

RECURSIVE SumSizes(_)
SumSizes(sizes) ==
    IF sizes = <<>> THEN 0
    ELSE LET rest == SumSizes(Tail(sizes))
         IN  IF Head(sizes) = NaN \/ rest = NaN THEN NaN ELSE Head(sizes) + rest

\* C1: activeSessionId is null or the id of a session in the sessions map, in
\* every reachable state of every interleaving, loadLayout included.
ActiveSessionPresent == activeSessionId = NULL \/ Has(sessions, activeSessionId)

\* C2: no session has a non-null groupId that is not a key of the groups map,
\* also when createSession(name, g) or setSessionGroup(s, g) completes while
\* deleteGroup(g) is in progress.
GroupReferencesPresent ==
    \A i \in DOMAIN sessions :
        sessions[i].groupId = NULL \/ Has(groups, sessions[i].groupId)

\* C3: splitView.sessionIds has length 0 or at least 2, and splitView.enabled
\* is true exactly when the length is at least 2.
SplitViewShape ==
    /\ Len(splitView.sessionIds) # 1
    /\ splitView.enabled <=> Len(splitView.sessionIds) >= 2

\* A split view that addToSplit has grown beyond the sessions it was enabled with.
SplitViewGrown == splitView.enabled /\ Len(splitView.sessionIds) > MaxSplit

\* C4: every id in splitView.sessionIds is a key of the sessions map, in every
\* reachable state.
SplitSessionsPresent == Range(splitView.sessionIds) \subseteq KeySet(sessions)

PaneSizesMatchSessions ==
    Mounted(splitView) => Len(paneSizes) = Len(splitView.sessionIds)

\* C7, as stated: whenever the split view is enabled the pane sizes sum to 100.
PaneSizesSumToFull == Mounted(splitView) => SumSizes(paneSizes) = Full

\* C7, amended: whenever the split view is enabled the pane sizes sum to 100,
\* from each reset of the sizes for as long as every resize found both panes
\* at its divider and did not hold the pane after the divider at the minimum.
PaneSizesSumUntilDrift ==
    (Mounted(splitView) /\ ~drifted) => SumSizes(paneSizes) = Full

\* Two resizes have moved the sizes away from equal shares and kept the total.
ResizedWithoutDrift ==
    /\ Mounted(splitView)
    /\ ~drifted
    /\ moves >= 2
    /\ Len(paneSizes) >= 3
    /\ paneSizes # EqualShares(Len(paneSizes))

\* C8: when loadLayout has completed on a snapshot with nothing interleaved,
\* activeSessionId is the id the host gave for the first saved session whose
\* create succeeded, and null if none succeeded.
LoadActivatesFirstCreated ==
    \A c \in RestoresDone :
        activeSessionId = At(CreatedIds(c.created), 0)

\* A restore of two sessions has completed, both creates successful.
RestoredTwo ==
    \E c \in RestoresDone :
        /\ Len(CreatedIds(c.created)) >= 2
        /\ activeSessionId = c.created[1]

\* C9: a failed create skips that saved session only: every saved session has
\* been attempted when loadLayout completes, the sessions whose create
\* succeeded are in the registry (after those that were there, in persisted
\* order), and loadLayout never rejects.
LoadSkipsFailedOnly ==
    /\ \A c \in LoadLayouts : c.pc \in {"load", "create", "resolved"}
    /\ \A c \in RestoresDone :
          /\ \A k \in DOMAIN c.saved : c.created[k] # -1
          /\ Keys(sessions) = c.before \o CreatedIds(c.created)

\* A restore has completed whose first create failed and whose second succeeded.
RestoredAfterFailure ==
    \E c \in RestoresDone :
        /\ Len(c.saved) >= 2
        /\ c.created[1] = 0
        /\ c.created[2] > 0

\* C10: while loadLayout restores sessions the groups map holds the groups of
\* the snapshot, the create requests have been issued in persisted order, at
\* most one is outstanding, and every request before the last issued one has
\* settled.
RestoreOneAtATime ==
    \A c \in Restoring :
        /\ groups = LoadedGroups(c.groups)
        /\ Cardinality(c.reqs) <= 1
        /\ c.issued = [i \in 1..Len(c.issued) |-> i]
        /\ c.reqs \subseteq {Len(c.issued)}
        /\ \A k \in DOMAIN c.saved :
              (c.created[k] = -1) <=> (k > Len(c.issued) \/ k \in c.reqs)

\* The second create of a restore with a saved group is outstanding.
RestoringSecond ==
    \E c \in Restoring :
        /\ c.groups # <<>>
        /\ c.reqs = {2}

\* The saved entries of a restore whose create succeeded, in persisted order.
CreatedEntries(c) ==
    SelectSeq([k \in DOMAIN c.saved |-> k], LAMBDA k : c.created[k] > 0)

\* C11: after loadLayout has completed on an empty registry with nothing
\* interleaved, the registry holds one session per saved entry whose create
\* succeeded, in persisted order, each running and in the group of its entry.
LoadRestoresInOrder ==
    \A c \in RestoresDone :
        c.before = <<>> =>
            /\ Len(sessions) = Len(CreatedEntries(c))
            /\ \A j \in DOMAIN CreatedEntries(c) :
                   /\ sessions[j].id = c.created[CreatedEntries(c)[j]]
                   /\ sessions[j].groupId = c.saved[CreatedEntries(c)[j]].group_id
                   /\ sessions[j].status = "running"

\* A restore on an empty registry has created two sessions, the first saved
\* as stopped in a group and the second ungrouped.
RestoredStoppedAndGrouped ==
    \E c \in RestoresDone :
        /\ c.before = <<>>
        /\ Len(sessions) = 2
        /\ c.saved[1].status = "Stopped"
        /\ c.saved[1].group_id # NULL
        /\ c.saved[2].group_id = NULL

\* The local state that the error taxonomy speaks of.
localState == <<sessions, groups, activeSessionId, splitView>>

\* An awaited call c leaves its await in this step.
Leaves(c) == CopiesIn(c, calls') < CopiesIn(c, calls)

\* An outcome is handed to a caller in this step.
Hands(outcome) == CopiesIn(outcome, calls') > CopiesIn(outcome, calls)

\* The host call of a createSession fails: the call ends and the host has
\* handed out no id.
CreateSessionFails ==
    \E c \in Awaiting("createSession", "await") :
        Leaves(c) /\ nextSessionId' = nextSessionId

\* C12: a session enters the registry only in the step in which a host
\* create call succeeds for it; when the host create call of createSession
\* fails, the caller gets the rejection and sessions, groups, activeSessionId
\* and splitView are unchanged.
CreateSessionInsertsOnSuccess ==
    [][/\ CreateSessionFails =>
            /\ UNCHANGED localState
            /\ Hands(Settled("createSession", "rejected"))
       /\ \A id \in KeySet(sessions') \ KeySet(sessions) :
            /\ id = nextSessionId
            /\ nextSessionId' = nextSessionId + 1
            /\ \E c \in Awaiting("createSession", "await") : Leaves(c)
            /\ Hands(Settled("createSession", "resolved"))]_vars

\* A createSession has been rejected with a session in the registry.
CreateSessionRejected ==
    /\ sessions # <<>>
    /\ CopiesIn(Settled("createSession", "rejected"), calls) > 0

DeleteGroupsFailed == {c \in BagToSet(calls) : c.op = "deleteGroup" /\ c.pc = "rejected"}

\* C13: when a host call of deleteGroup has failed, also part-way through it,
\* and nothing interleaved, the sessions and their groups are exactly what
\* they were when deleteGroup was called.
FailedDeleteGroupChangesNothing ==
    \A c \in DeleteGroupsFailed : Memberships(sessions) = c.before

\* The deleteSession c succeeds in this step: its session leaves the registry.
DeleteSessionSucceeds(c) ==
    /\ c \in Awaiting("deleteSession", "await")
    /\ Leaves(c)
    /\ Has(sessions, c.id)
    /\ ~Has(sessions', c.id)

\* C14: when deleteSession(id) succeeds and id was the active selection, the
\* new active selection is a session left in the registry, and null only
\* when none is left; when id was not the active selection it is unchanged.
DeleteSessionFallsBack ==
    [][\A c \in BagToSet(calls) :
          DeleteSessionSucceeds(c) =>
              IF activeSessionId = c.id
              THEN IF sessions' = <<>>
                   THEN activeSessionId' = NULL
                   ELSE Has(sessions', activeSessionId')
              ELSE activeSessionId' = activeSessionId]_vars

\* The active session has been deleted with two sessions left, and the
\* selection has fallen back to the first of them.
FellBackToFirst ==
    /\ CopiesIn(Settled("deleteSession", "resolved"), calls) > 0
    /\ Len(sessions) >= 2
    /\ activeSessionId = sessions[1].id

\* C15: in every reachable state, a removeFromSplit(id) that leaves exactly
\* one id in the split makes the split view Disabled (not enabled, no
\* sessionIds) and makes that one remaining id the active selection.
RemoveToOneDisables ==
    \A id \in SessionIds :
        LET left == Without(splitView.sessionIds, id)
        IN  Len(left) = 1 =>
                /\ RemoveFromSplitView(id) = DisabledSplit
                /\ RemoveFromSplitActive(id) = left[1]

\* A split of two whose first session is active: removing it leaves the other.
SplitOfTwoFirstActive ==
    /\ splitView.enabled
    /\ Len(splitView.sessionIds) = 2
    /\ activeSessionId = splitView.sessionIds[1]

\* The dividers of the view.
Dividers == 0..(Len(splitView.sessionIds) - 2)

\* C16: resizeDivider is idempotent: for every pane sizes, divider and pointer
\* position, resizing the result again with the same divider and position
\* gives the same pane sizes.
ResizeIdempotent ==
    \A index \in Dividers, mousePercent \in PointerPositions :
        LET once == ResizeDivider(paneSizes, index, mousePercent)
        IN  ResizeDivider(once, index, mousePercent) = once

\* Pane sizes that moves of a divider have brought above a total of 100.
ResizedAboveFull ==
    /\ moves = MaxMoves
    /\ Len(paneSizes) >= 3
    /\ SumSizes(paneSizes) > Full

\* C17: in every state, with n > 1 sessions in registry order and the active
\* session at index i, the session focus-next makes active is the one at
\* index (i + 1) mod n and the session focus-previous makes active the one at
\* index (i - 1) mod n; with fewer than two sessions neither changes the
\* active session.
FocusStepsRound ==
    LET sessionIds == Keys(sessions)
        n == Len(sessionIds)
        i == IndexOf(sessionIds, activeSessionId)
    IN  /\ n <= 1 => ~ENABLED focusNext /\ ~ENABLED focusPrevious
        /\ n <= 1 => FocusNextTarget = activeSessionId /\ FocusPreviousTarget = activeSessionId
        /\ (n > 1 /\ i >= 0) =>
               /\ FocusNextTarget = sessionIds[((i + 1) % n) + 1]
               /\ FocusPreviousTarget = sessionIds[((i - 1 + n) % n) + 1]

\* Three sessions, none deleted, and the focus moved to the middle one.
FocusOnMiddle ==
    /\ Len(sessions) = 3
    /\ nextSessionId = 4
    /\ activeSessionId = sessions[2].id

\* The output chunks a terminal has been given, in the order of the writes.
OutputsWritten(id) == SelectSeq(terminals[id].written, LAMBDA w : w.event = OutputEvent)

\* C18: what the terminal of a session has been given to write of the output
\* stream are bytes of events for that session only, each event at most
\* once and in the order in which the host emitted them.
OutputReachesMatchingSinkInOrder ==
    \A id \in DOMAIN terminals :
        LET out == OutputsWritten(id)
        IN  /\ \A i \in DOMAIN out :
                   out[i].data.id = id /\ out[i].data.seq \in 1..Emitted
            /\ \A i, j \in DOMAIN out : i < j => out[i].data.seq < out[j].data.seq

\* Two output events have been written to one terminal while the output
\* callback of another pane was attached.
TwoChunksBesideAnotherPane ==
    \E id \in DOMAIN terminals :
        /\ Len(OutputsWritten(id)) = 2
        /\ \E l \in Listening(OutputEvent) :
               l.sessionId # id /\ l.sessionId \in DOMAIN terminals

\* C19: in the step in which the host emits an exit event for a session of
\* the registry, the status of that session becomes stopped, the other
\* sessions keep their status, and the exit notice is written to the
\* session's terminal behind everything written to it before.
ExitStopsSession ==
    [][\A id \in SessionIds :
           ptyExit(id) /\ Has(sessions, id) =>
               /\ Has(sessions', id)
               /\ MapGet(sessions', id).status = "stopped"
               /\ \A o \in KeySet(sessions) \ {id} :
                      Has(sessions', o) /\ MapGet(sessions', o) = MapGet(sessions, o)
               /\ id \in DOMAIN terminals =>
                      terminals'[id].written = Append(terminals[id].written, ExitNotice)]_vars

\* C20: deleteGroup(g) issues the host's delete-group command for g only
\* after every member of g has been moved out of it: while that command is
\* awaited, no session of the registry has groupId g.
DeleteGroupAfterMembersMoved ==
    \A c \in Awaiting("deleteGroup", "delete_group") : getSessionsInGroup(c.id) = <<>>

\* The calls that complete with a setter on the session, or on the group, they
\* refer to.
SessionSetters == {"renameSession", "setSessionGroup"}

GroupSetters == {"renameGroup", "toggleGroupCollapsed"}

\* A setter called for a session that is not in the registry leaves the
\* registry as it is.
StaleSetterChangesNothing ==
    \A id \in HostSessionIds \ KeySet(sessions) :
        /\ updateSessionStatus(id, "stopped") = sessions
        /\ UpdateSession(id, "terminal", id) = sessions

\* An awaited call completes in this step for a session or group that has
\* been deleted meanwhile: the sessions and the groups stay as they are.
StaleCompletionChangesNothing ==
    \A c \in BagToSet(calls) :
        (c.pc = "await" /\ Leaves(c)) =>
            /\ (c.op \in SessionSetters /\ ~Has(sessions, c.id)) =>
                   sessions' = sessions /\ groups' = groups
            /\ (c.op \in GroupSetters /\ ~Has(groups, c.id)) =>
                   sessions' = sessions /\ groups' = groups

ListenersOfRenderedPanes ==
    \A l \in listeners : l.sessionId \in DOMAIN terminals

\* C23: in every state, enableSplitView with fewer than two ids leaves the
\* split view and the active selection as they are, whether the split view is
\* disabled or enabled (sessions and groups are not written by it at all).
EnableOfFewChangesNothing ==
    \A ids \in SplitArgs, d \in Directions :
        Len(ids) < 2 => EnableSplitView(ids, d) = Layout(splitView, activeSessionId)

\* The split view is enabled, horizontal, and the active session is not its
\* first one: an enableSplitView of one id that acted would show.
EnabledWithLaterPaneActive ==
    /\ splitView.enabled
    /\ splitView.direction = "horizontal"
    /\ activeSessionId \in Range(splitView.sessionIds)
    /\ activeSessionId # splitView.sessionIds[1]

\* C25: in every state and for every id, addToSplit(id) leaves the split view
\* as it is when id is not in the registry; when the split view is disabled
\* it starts the split of the active session and id if a session is active
\* and is not id, and changes nothing otherwise; when it is enabled it appends
\* id if id is not shown yet, and changes nothing otherwise.  (The active
\* selection is not written by addToSplit.)
AddToSplitAsSpecified ==
    \A id \in SessionIds :
        AddToSplitView(id) =
            IF ~Has(sessions, id) THEN splitView
            ELSE IF ~splitView.enabled
            THEN IF activeSessionId # NULL /\ activeSessionId # id
                 THEN [enabled |-> TRUE, sessionIds |-> <<activeSessionId, id>>,
                       direction |-> "vertical"]
                 ELSE splitView
            ELSE IF id \in Range(splitView.sessionIds)
            THEN splitView
            ELSE [splitView EXCEPT !.sessionIds = splitView.sessionIds \o <<id>>]

\* A third session has been added to a horizontal split and made active.
ThirdPaneAddedAndActive ==
    /\ splitView.enabled
    /\ splitView.direction = "horizontal"
    /\ Len(splitView.sessionIds) = 3
    /\ activeSessionId = splitView.sessionIds[3]

\* C27: in every state, a removeFromSplit(id) after which no id remains in
\* the split view leaves the active selection as it is.
RemoveOfLastKeepsActive ==
    \A id \in SessionIds :
        Without(splitView.sessionIds, id) = <<>> =>
            RemoveFromSplitActive(id) = activeSessionId

\* C29: in every state, disabled or enabled, setSplitDirection(direction)
\* leaves a split view with the same enabled flag and the same sessionIds and
\* with the given direction (nothing else is written by it).
SetDirectionChangesDirectionOnly ==
    \A d \in Directions :
        SetSplitDirection(d) = [enabled |-> splitView.enabled,
                                sessionIds |-> splitView.sessionIds,
                                direction |-> d]

\* The direction has been set while the split view was disabled, and while
\* it is enabled the direction is read by the next one.
DirectionSetWhileDisabled ==
    /\ ~splitView.enabled
    /\ splitView.direction = "horizontal"
    /\ Len(sessions) >= 2

\* C30: in every state, for every group id and direction, splitGroup leaves
\* what enableSplitView leaves when it is given the ids of the sessions of
\* that group in registry order; with fewer than two of them that is the
\* state as it was.
SplitGroupIsEnableOfMembers ==
    \A g \in 1..MaxGroups, d \in Directions :
        LET ids == Keys(getSessionsInGroup(g))
        IN  /\ SplitGroup(g, d) = EnableSplitView(ids, d)
            /\ Len(ids) < 2 => SplitGroup(g, d) = Layout(splitView, activeSessionId)

\* The two sessions of a group are split horizontally beside a session that
\* is in no group.
GroupOfTwoSplit ==
    \E g \in KeySet(groups) :
        /\ Len(getSessionsInGroup(g)) = 2
        /\ Len(sessions) = 3
        /\ splitView.enabled
        /\ splitView.direction = "horizontal"
        /\ splitView.sessionIds = Keys(getSessionsInGroup(g))
        /\ activeSessionId = splitView.sessionIds[1]

\* C24: in every step in which enableSplitView(ids, direction) with two or
\* more ids changes the split view (and the view's reset effect is not still
\* to run), the split view is enabled on ids, the first of ids is active and
\* every pane size is 100 / n.
EnableGivesEqualShares ==
    [][\A ids \in SplitArgs :
           (/\ Len(ids) >= 2
            /\ enableSplitView(ids, "vertical")
            /\ splitView' # splitView
            /\ ~EffectPending') =>
               /\ splitView' = [enabled |-> TRUE, sessionIds |-> ids, direction |-> "vertical"]
               /\ activeSessionId' = ids[1]
               /\ paneSizes' = EqualShares(Len(ids))]_vars

\* The pane sizes are reset in this step for a split view that has one more
\* session than there were sizes.
ResetAfterAppend ==
    /\ Mounted(splitView)
    /\ Len(paneSizes) >= 2
    /\ \A i \in DOMAIN paneSizes : paneSizes[i] # NaN
    /\ Len(paneSizes') = Len(paneSizes) + 1
    /\ effectLen' = Len(paneSizes')
    /\ effectLen' = Len(splitView'.sessionIds)

\* C26, as the code has it: when the pane sizes are reset after a session
\* has been appended to the split view, every pane, the ones shown before
\* included, gets the same share 100 / n of the new number n of panes.
AppendResetsToEqualShares ==
    [][ResetAfterAppend =>
           \A i \in DOMAIN paneSizes' : paneSizes'[i] * Len(paneSizes') = Full]_vars

\* C26, as stated: the sizes of the panes shown before keep their pairwise
\* ratios.
AppendKeepsProportions ==
    [][ResetAfterAppend =>
           \A i, j \in DOMAIN paneSizes :
               paneSizes'[i] * paneSizes[j] = paneSizes'[j] * paneSizes[i]]_vars

\* Three panes at equal shares with a divider held: the sizes were reset
\* after the third session was added.
ThreeEqualPanesDividerHeld ==
    /\ Mounted(splitView)
    /\ Len(splitView.sessionIds) = 3
    /\ paneSizes = <<Full \div 3, Full \div 3, Full \div 3>>
    /\ moves = 0
    /\ resizingIndex # NoIndex

\* C28: for the pane sizes of every state, every divider i and every pointer
\* position p, resizeDivider sets pane i to p minus the sizes of the panes
\* before i, held within [10, 90]; sets pane i + 1 to its old size minus the
\* change of pane i, held at 10 or more; and leaves every other pane as it is.
ResizeAsSpecified ==
    \A index \in Dividers, mousePercent \in PointerPositions :
        LET resized == ResizeDivider(paneSizes, index, mousePercent)
            target == mousePercent - SumSizes(SubSeq(paneSizes, 1, index))
            clamped == IF target < 10 * Percent THEN 10 * Percent
                       ELSE IF target > 90 * Percent THEN 90 * Percent
                       ELSE target
            change == clamped - paneSizes[index + 1]
            rest == paneSizes[index + 2] - change
        IN  /\ Len(resized) = Len(paneSizes)
            /\ resized[index + 1] = clamped
            /\ resized[index + 2] = (IF rest < 10 * Percent THEN 10 * Percent ELSE rest)
            /\ \A i \in DOMAIN paneSizes \ {index + 1, index + 2} :
                   resized[i] = paneSizes[i]

\* The second divider of three panes has been moved against the first pane:
\* the middle pane is at its minimum and the last one has taken the change.
MiddlePaneAtMinimum ==
    /\ Len(paneSizes) = 3
    /\ moves > 0
    /\ paneSizes[2] = MinPaneSize * Percent
    /\ paneSizes[3] > paneSizes[1]

\* C31: in every state where the split view is enabled, the active selection
\* is one of the sessions shown in the split view.
ActiveIsSplitPane ==
    splitView.enabled => activeSessionId \in Range(splitView.sessionIds)

\* updateSessionStatus(id, status) gives the registry with the same sessions
\* in the same order, the status of session id replaced and nothing else;
\* without session id it gives the registry as it is.
StatusUpdateSetsStatusOnly ==
    \A id \in SessionIds, status \in Statuses :
        updateSessionStatus(id, status) =
            [i \in DOMAIN sessions |->
                IF sessions[i].id = id
                THEN [id |-> id,
                      name |-> sessions[i].name,
                      groupId |-> sessions[i].groupId,
                      status |-> status,
                      terminal |-> sessions[i].terminal]
                ELSE sessions[i]]

\* A step that leaves the registry as updateSessionStatus(id, status) gives
\* it: the same update applied again changes nothing, and the step has
\* written no other part of the store and made no host call.
StatusUpdateStepIsClosed ==
    \A id \in SessionIds, status \in Statuses :
        (sessions' # sessions /\ sessions' = updateSessionStatus(id, status)) =>
            /\ updateSessionStatus(id, status)' = sessions'
            /\ UNCHANGED <<groups, activeSessionId, isLoading, splitView, hostVars>>

\* C32: updateSessionStatus(id, status) changes only the status of session
\* id: every other field of it, every other session and the order of the
\* registry stay, for an id not in the registry nothing changes, applying it
\* a second time changes nothing more, and the step writes neither groups,
\* activeSessionId, splitView nor the calls to the host.
StatusUpdateTouchesStatusOnly ==
    []StatusUpdateSetsStatusOnly /\ [][StatusUpdateStepIsClosed]_vars

\* A session with its terminal has been stopped, beside a second session,
\* with its terminal too, that is still running.
StoppedBesideRunning ==
    \E i, j \in DOMAIN sessions :
        /\ sessions[i].status = "stopped" /\ sessions[i].terminal # NULL
        /\ sessions[j].status = "running" /\ sessions[j].terminal # NULL

\* A loadLayout gets its answer from load_layout in this step and restores
\* nothing: there was no snapshot, or the host call failed.
LoadFindsNothing ==
    /\ \E c \in Awaiting("loadLayout", "load") : Leaves(c)
    /\ \E path \in {"none", "failed"} : Hands(LoadedNothing(path))

\* No loadLayout has ended with a rejection.
NoLoadRejected == \A c \in LoadLayouts : c.pc # "rejected"

\* C33: when loadLayout finds no snapshot, or its host load call fails, it
\* completes in that step, without a rejection, and sessions, groups,
\* activeSessionId and splitView are what they were.
LoadOfNothingChangesNothing ==
    []NoLoadRejected /\ [][LoadFindsNothing => UNCHANGED localState]_vars

\* A loadLayout whose host call failed has completed over a registry with
\* sessions and groups.
LoadFailedOverRegistry ==
    /\ sessions # <<>>
    /\ groups # <<>>
    /\ activeSessionId # NULL
    /\ \E c \in LoadLayouts : c.pc = "resolved" /\ c.path = "failed"

SaveLayouts == {c \in BagToSet(calls) : c.op = "saveLayout"}

\* C34 as stated: saveLayout never rejects, whatever the host save call does.
SaveLayoutNeverRejects == \A c \in SaveLayouts : c.pc # "rejected"

\* A saveLayout settles in this step: the caller's promise resolves or
\* rejects, and the store is what it was.
SaveSettlesAtCaller ==
    \A c \in Awaiting("saveLayout", "await") :
        Leaves(c) =>
            /\ Hands([c EXCEPT !.pc = "resolved"]) \/ Hands([c EXCEPT !.pc = "rejected"])
            /\ UNCHANGED <<storeVars, nextSessionId, nextGroupId>>

\* A rejection of saveLayout leaves the caller in this step: its catch has
\* handled it, and the store is what it was.
SaveRejectionIsCaught ==
    \A c \in Awaiting("saveLayout", "rejected") :
        Leaves(c) =>
            /\ c.caller \in SaveCallers
            /\ Hands([c EXCEPT !.pc = "caught"])
            /\ UNCHANGED <<storeVars, nextSessionId, nextGroupId>>

\* C34, amended: a failure of the host save call rejects the promise of
\* saveLayout; the caller, periodic or shutdown, handles the rejection with
\* its catch; sessions, groups, activeSessionId and splitView stay unchanged
\* throughout.
SaveFailureIsCaughtByCaller ==
    [][SaveSettlesAtCaller /\ SaveRejectionIsCaught]_vars

\* The catch of the shutdown save has handled a rejection while a periodic
\* save is rejected too, with sessions in the registry.
BothSavesFailed ==
    /\ sessions # <<>>
    /\ \E c \in SaveLayouts : c.caller = "beforeunload" /\ c.pc = "caught"
    /\ \E c \in SaveLayouts : c.caller = "interval" /\ c.pc = "rejected"

\* The position of group id in the groups map (its insertion position).
InsertedAt(id) == IndexOf(Keys(groups), id)

\* C35: the groups the sidebar lists are all the groups of the map, each
\* once, in ascending order; two groups of equal order are listed in the
\* order in which they were inserted into the map.
GroupsListedInOrder ==
    LET listed == sidebar.groups
    IN  /\ Len(listed) = Len(groups)
        /\ Range(listed) = KeySet(groups)
        /\ \A i, j \in DOMAIN listed :
               i < j =>
                   /\ MapGet(groups, listed[i]).order <= MapGet(groups, listed[j]).order
                   /\ MapGet(groups, listed[i]).order = MapGet(groups, listed[j]).order =>
                          InsertedAt(listed[i]) < InsertedAt(listed[j])

\* Three groups are listed, not in the order of the map: the group inserted
\* last comes first, and the two of equal order behind it were inserted in
\* the opposite order of their ids; one of them has been renamed.
TieListedBehindLaterGroup ==
    /\ Len(groups) = 3
    /\ sidebar.groups[1] = groups[3].id
    /\ MapGet(groups, sidebar.groups[2]).order = MapGet(groups, sidebar.groups[3]).order
    /\ sidebar.groups[2] > sidebar.groups[3]
    /\ \E i \in DOMAIN groups : groups[i].name = Renamed

\* The session Cmd+k makes active is the k-th of the registry, counted from
\* one, and with fewer than k sessions it is the active one as it is.
FocusByIndexSelectsKth ==
    \A k \in 1..MaxFocusKey :
        FocusByIndexTarget(k) = IF Len(sessions) >= k THEN sessions[k].id
                                ELSE activeSessionId

\* A focus-by-index beyond the registry is no step at all: nothing of the
\* state changes.
FocusByIndexBeyondIsNoStep ==
    \A k \in 1..MaxFocusKey :
        (k > Len(sessions) /\ focusByIndex(k)) => UNCHANGED vars

\* C36: focus-by-index k, 1 <= k <= 9, makes the k-th session of the
\* registry, in its iteration order and counted from one, the active one
\* when the registry has at least k sessions, and leaves every part of the
\* state unchanged otherwise.
FocusByIndexAsSpecified ==
    []FocusByIndexSelectsKth /\ [][FocusByIndexBeyondIsNoStep]_vars

\* The first session has been deleted and the first of the two that are
\* left, whose id is not its position, is active.
FocusOnFirstOfRest ==
    /\ Keys(sessions) = <<2, 3>>
    /\ activeSessionId = 2
    /\ calls = EmptyBag

\* C37: for all pane sizes, every divider i and every pointer position: if
\* the size of pane i + 1 minus the change applied to pane i is at least 10,
\* the sizes after resizeDivider have the same total as before, also when
\* pane i itself was held at 10 or at 90.
ResizeKeepsTotalAboveFloor ==
    \A index \in Dividers, mousePercent \in PointerPositions :
        LET resized == ResizeDivider(paneSizes, index, mousePercent)
            change == resized[index + 1] - paneSizes[index + 1]
        IN  paneSizes[index + 2] - change >= 10 * Percent =>
                SumSizes(resized) = SumSizes(paneSizes)

\* The pointer has been moved far to the right of the first divider: the
\* first pane is held at 90, the second has taken the whole change, and the
\* total is what it was.
FirstPaneHeldAtMaximum ==
    /\ moves > 0
    /\ ~drifted
    /\ paneSizes[1] = MaxPaneSize * Percent
    /\ paneSizes[2] > MinPaneSize * Percent

\* C38: in every state reached by addToSplit, removeFromSplit, splitGroup,
\* disableSplitView and deleteSession (and by enableSplitView with distinct
\* ids) no id occurs twice in splitView.sessionIds.
NoSessionTwiceInSplit ==
    \A i, j \in DOMAIN splitView.sessionIds :
        splitView.sessionIds[i] = splitView.sessionIds[j] => i = j

\* Three sessions have been added to the split one after the other, the
\* last created first.
SplitOfThreeLatestFirst ==
    /\ splitView.enabled
    /\ splitView.sessionIds = <<3, 2, 1>>

\* How often the sidebar lists session id.
TimesListed(id) == Cardinality({i \in DOMAIN sidebar.sessions : sidebar.sessions[i] = id})

\* C39: in every state every session of the registry is listed by the
\* sidebar exactly once, under a group of the groups map or among the
\* ungrouped sessions.
EverySessionListedOnce == \A id \in KeySet(sessions) : TimesListed(id) = 1

\* The loadLayout calls that have not completed.
LoadsInProgress == {c \in LoadLayouts : c.pc \in {"load", "create"}}

\* Every loadLayout that is called completes.
LoadsComplete == <>[](LoadsInProgress = {})

\* isLoading is true exactly while a loadLayout is in progress.
LoadingWhileInProgress == isLoading <=> LoadsInProgress # {}

\* C40: when every host call is answered, every loadLayout completes, and
\* isLoading is true exactly while some loadLayout is in progress: false once
\* all have completed and not false while one is still running.
LoadingFlagFollowsLoads == LoadsComplete /\ []LoadingWhileInProgress

====
